---- MODULE Spec2Model ----
(***************************************************************************)
(* A model of mylog's Logger (src/src/lib.rs): the mutex-guarded           *)
(* LoggerInner {async_buf, use_async}, the two condition variables         *)
(* wake_consumer and wake_producers, the producer side (Log::log and       *)
(* Log::flush), the consumer thread (Logger::run_async) and the scope      *)
(* that enables and disables asynchronous mode (Handle::async_scope,       *)
(* AsyncHandle::drop).                                                     *)
(*                                                                         *)
(* A byte of a rendered entry is the triple <<entry, index, isNewline>>,   *)
(* so that a lost, duplicated, reordered or split entry is visible in the  *)
(* sink.  A sink write (Logger::write_all) is an interval: a thread enters *)
(* it and later leaves it, the bytes reaching the sink when it leaves.     *)
(*                                                                         *)
(* Specification (src/src/spec.rs) and EntryBuf (src/src/entry_buf.rs) are *)
(* sequential: each is modelled on its own, on strings of characters and   *)
(* on bytes, under SpecificationSpec and EntryBufSpec.  FairSpec is Spec   *)
(* with the fairness of the threads' scheduling.                           *)
(***************************************************************************)
EXTENDS Naturals, Sequences, FiniteSets

\* ------------------------------------------------------------------ bounds

\* Number of producer threads (callers of Log::log).
NumProducers == 2

\* Number of accepted entries each producer logs.
LogsPerProducer == 1

\* Number of Handle values sharing the Logger (Handle is Clone).
NumHandles == 2

\* Number of async scopes each Handle opens.
MaxScopes == 1

\* Number of log calls the filter gate rejects that the model counts.
MaxFiltered == 1

\* Number of sink writes that may fail.
MaxWriteFailures == 1

\* Number of flush calls.
MaxFlushes == 1

\* MAX_ENTRY_SIZE and ASYNC_BUF_SIZE, scaled down (1 << 16 and 1 << 20 in
\* the source); the source requires ASYNC_BUF_SIZE >= MAX_ENTRY_SIZE.
MAX_ENTRY_SIZE == 2

ASYNC_BUF_SIZE == 3

\* Number of comma-separated tokens of a directive string.
MaxTokens == 3

\* Number of write_str calls made on one EntryBuf.
MaxAppends == 2

\* Number of characters of the text of one write_str call.
MaxTextChars == 2

\* MAX_ENTRY_SIZE as the model of EntryBuf scales it: the size of the byte
\* array of entry_buf.rs, large enough for a three-byte character to be cut
\* at either of its continuation bytes.
ENTRY_SIZE == 5

\* ----------------------------------------------------------------- threads

Producers == 1 .. NumProducers

Handles == 1 .. NumHandles

NoThread == <<"none", 0>>

ProducerT(p) == <<"producer", p>>

ConsumerT(h) == <<"consumer", h>>

\* --------------------------------------------------- Specification (filter)

LevelOrd == [Off |-> 0, Error |-> 1, Warn |-> 2, Info |-> 3, Debug |-> 4, Trace |-> 5]

\* s.starts_with(prefix), on sequences of characters.
StartsWith(s, prefix) ==
    /\ Len(prefix) <= Len(s)
    /\ SubSeq(s, 1, Len(prefix)) = prefix

\* The first directive, in list order, whose prefix matches; Off if none.
RECURSIVE get_level_from(_, _, _)
get_level_from(directives, module, i) ==
    IF i > Len(directives) THEN "Off"
    ELSE IF StartsWith(module, directives[i][2]) THEN directives[i][1]
    ELSE get_level_from(directives, module, i + 1)

get_level(directives, module) == get_level_from(directives, module, 1)

\* The directives of the Logger under study: "a::b" at Debug, everything
\* else at Warn (most specific prefix first, as Specification::new sorts).
LoggerDirectives == << <<"Debug", <<"a", "b">> >>, <<"Warn", <<>> >> >>

LogTargets == { <<"a", "b", "c">>, <<"a">> }

LogLevels == {"Error", "Info", "Trace"}

\* Logger::enabled.
enabled(target, level) ==
    LevelOrd[get_level(LoggerDirectives, target)] >= LevelOrd[level]

\* The records a caller may log that pass the gate, and those that do not.
AcceptedRecords == {r \in LogTargets \X LogLevels : enabled(r[1], r[2])}

RejectedRecords == {r \in LogTargets \X LogLevels : ~enabled(r[1], r[2])}

\* ------------------------------------------------------------------- state

VARIABLES
    use_async,   \* LoggerInner.use_async
    async_buf,   \* LoggerInner.async_buf: a sequence of bytes
    mutex,       \* the thread holding Logger.inner across steps, or NoThread
    pc,          \* each producer's position in Log::log
    msg,         \* each producer's rendered entry (EntryBuf::get)
    sent,        \* accepted entries each producer has rendered so far
    filtered,    \* log calls that returned at the filter gate
    rendered,    \* every entry rendered so far (history)
    hpc,         \* each Handle owner's position in async_scope / drop
    scopes,      \* async_scope calls each Handle has made
    cpc,         \* position of the consumer thread each Handle spawned
    cbuf,        \* run_async's local buf
    clocal,      \* run_async's local use_async
    fpc,         \* the flushing thread's position in Log::flush
    flushes,     \* flush calls made
    sink,        \* the write_all calls that have returned, in order
    enq,         \* entries appended to async_buf, in order (history)
    dropSeen,    \* entries enqueued before each drop call began (history)
    flushSeen,   \* entries enqueued before the flush call began (history)
    flushAsync,  \* use_async as the flush call read it (history)
    lateDrop,    \* every drop so far began after all producers finished
    preceded,    \* the pairs <<e1, e2>> of entries such that the log call of
                 \* e1 had left its locked section when the log call of e2
                 \* first took the mutex (history)
    spec_str,         \* the directive string given to Specification::new
    spec_built,       \* Specification::new has returned
    spec_directives,  \* Specification.directives
    spec_max,         \* Specification.max
    spec_query,       \* the last get_level call: its module and its result
    entry_state,      \* the EntryBuf's type state: "Writing" or "Reading"
    entry_buf,        \* EntryBuf.buf
    entry_len,        \* EntryBuf.len
    entry_calls       \* the write_str calls made on the EntryBuf (history)

loggerVars == <<use_async, async_buf, mutex, pc, msg, sent, filtered, rendered, hpc,
                scopes, cpc, cbuf, clocal, fpc, flushes, sink, enq, dropSeen,
                flushSeen, flushAsync, lateDrop, preceded>>

specificationVars == <<spec_str, spec_built, spec_directives, spec_max, spec_query>>

entryVars == <<entry_state, entry_buf, entry_len, entry_calls>>

\* What the Logger's operations never touch: the Specification and the
\* EntryBuf that are studied on their own.
pureVars == <<specificationVars, entryVars>>

vars == <<loggerVars, specificationVars, entryVars>>

producerVars == <<pc, msg, sent>>

handleVars == <<hpc, scopes, dropSeen, lateDrop>>

consumerVars == <<cpc, cbuf, clocal>>

flushVars == <<fpc, flushes, flushSeen, flushAsync>>

\* ----------------------------------------------------------------- helpers

\* The rendered, terminated entry: n bytes, the last one the newline.
Render(e, n) == [i \in 1 .. n |-> <<e, i, i = n>>]

EnqSet == {enq[i] : i \in 1 .. Len(enq)}

\* The entries whose log call has left its locked section: appended to
\* async_buf, or handed to the sink by the call itself.
Completed ==
    EnqSet \cup {sink[i].bytes[1][1] : i \in {j \in 1 .. Len(sink) : sink[j].by[1] = "producer"}}

AllProducersDone ==
    \A p \in Producers : pc[p] = "idle" /\ sent[p] = LogsPerProducer

FailedWrites == Cardinality({i \in 1 .. Len(sink) : ~sink[i].ok})

\* The outcomes write_all may report.
WriteOutcomes == IF FailedWrites < MaxWriteFailures THEN {TRUE, FALSE} ELSE {TRUE}

\* Condvar::notify_one on wake_consumer: one parked consumer, if any, wakes.
NotifyOneConsumer ==
    IF \E h \in Handles : cpc[h] = "wait"
    THEN \E h \in Handles :
            /\ cpc[h] = "wait"
            /\ cpc' = [cpc EXCEPT ![h] = "woken"]
    ELSE cpc' = cpc

\* Condvar::notify_all on wake_producers: every parked log call wakes.
WokenProducers ==
    [p \in Producers |-> IF pc[p] = "wait_room" THEN "woken_room" ELSE pc[p]]

\* Condvar::notify_all on wake_producers: a parked flush call wakes.
WokenFlush == IF fpc = "wait" THEN "woken" ELSE fpc

\* ------------------------------------------------------------------- Init

LoggerInit ==
    /\ use_async = FALSE
    /\ async_buf = <<>>
    /\ mutex = NoThread
    /\ pc = [p \in Producers |-> "idle"]
    /\ msg = [p \in Producers |-> <<>>]
    /\ sent = [p \in Producers |-> 0]
    /\ filtered = 0
    /\ rendered = {}
    /\ hpc = [h \in Handles |-> "idle"]
    /\ scopes = [h \in Handles |-> 0]
    /\ cpc = [h \in Handles |-> "none"]
    /\ cbuf = [h \in Handles |-> <<>>]
    /\ clocal = [h \in Handles |-> TRUE]
    /\ fpc = "idle"
    /\ flushes = 0
    /\ sink = <<>>
    /\ enq = <<>>
    /\ dropSeen = [h \in Handles |-> {}]
    /\ flushSeen = {}
    /\ flushAsync = FALSE
    /\ lateDrop = TRUE
    /\ preceded = {}

\* No get_level call has been made.
NoQuery == [module |-> <<>>, level |-> "none"]

\* No Specification is under study.
SpecificationUnused ==
    /\ spec_str = <<>>
    /\ spec_built = FALSE
    /\ spec_directives = <<>>
    /\ spec_max = "Off"
    /\ spec_query = NoQuery

\* The value that stands for a byte of buf that was never written.
Uninit == 256

\* EntryBuf::new, lines 32-38: nothing of buf is initialized, len is 0.
EntryBuf_new ==
    /\ entry_state = "Writing"
    /\ entry_buf = [i \in 1 .. ENTRY_SIZE |-> Uninit]
    /\ entry_len = 0
    /\ entry_calls = <<>>

Init == LoggerInit /\ SpecificationUnused /\ EntryBuf_new

\* ------------------------------------------------------------ Log::log

\* Mutant of log_filtered: the gate is tested only after the consumer has
\* been notified.
log_filtered_notify(p) ==
    /\ pc[p] = "idle"
    /\ filtered < MaxFiltered
    /\ RejectedRecords # {}
    /\ filtered' = filtered + 1
    /\ NotifyOneConsumer
    /\ UNCHANGED <<pureVars, preceded, use_async, async_buf, mutex, producerVars, rendered, handleVars,
                   cbuf, clocal, flushVars, sink, enq>>

\* log, lines 396-398: the record is rejected by the filter gate and the
\* call returns.
log_filtered(p) ==
    /\ pc[p] = "idle"
    /\ filtered < MaxFiltered
    /\ RejectedRecords # {}
    /\ filtered' = filtered + 1
    /\ UNCHANGED <<pureVars, preceded, use_async, async_buf, mutex, producerVars, rendered, handleVars,
                   consumerVars, flushVars, sink, enq>>

\* log, lines 396-407: the record passes the gate and is rendered into an
\* EntryBuf, terminated; nothing shared is touched yet.
log_render(p) ==
    /\ pc[p] = "idle"
    /\ sent[p] < LogsPerProducer
    /\ AcceptedRecords # {}
    /\ \E n \in 1 .. MAX_ENTRY_SIZE :
          /\ msg' = [msg EXCEPT ![p] = Render(<<p, sent[p] + 1>>, n)]
          /\ rendered' = rendered \cup {Render(<<p, sent[p] + 1>>, n)}
    /\ sent' = [sent EXCEPT ![p] = @ + 1]
    /\ pc' = [pc EXCEPT ![p] = "lock"]
    /\ UNCHANGED <<pureVars, preceded, use_async, async_buf, mutex, filtered, handleVars,
                   consumerVars, flushVars, sink, enq>>

\* Mutant of HasRoom: the length of the entry is left out of the test.
HasRoomIgnoringEntry(buf, m) == Len(buf) <= ASYNC_BUF_SIZE

\* The complement of the loop condition of line 419.
HasRoom(buf, m) == Len(buf) + Len(m) <= ASYNC_BUF_SIZE

\* Mutant of Extended: the entry replaces the buffer's contents.
ExtendedOverwriting(buf, m) == m

\* async_buf.extend_from_slice(buf), line 422.
Extended(buf, m) == buf \o m

\* log, lines 419-423, with the mutex held: park on wake_producers while
\* the entry does not fit, else append it and notify the consumer.
log_enqueue(p) ==
    IF HasRoom(async_buf, msg[p])
    THEN /\ async_buf' = Extended(async_buf, msg[p])
         /\ enq' = Append(enq, msg[p][1][1])
         /\ NotifyOneConsumer
         /\ pc' = [pc EXCEPT ![p] = "idle"]
         /\ msg' = [msg EXCEPT ![p] = <<>>]
    ELSE /\ pc' = [pc EXCEPT ![p] = "wait_room"]
         /\ UNCHANGED <<async_buf, enq, cpc, msg>>

\* The holder of the mutex while log writes to the sink directly.
SyncWriteHolder(p) == ProducerT(p)

\* log, lines 409-423: the mutex is taken; in sync mode write_all is entered
\* with the mutex held, in async mode the entry is enqueued (or the call
\* parks).
log_lock(p) ==
    /\ pc[p] = "lock"
    /\ mutex = NoThread
    /\ preceded' = preceded \cup {<<e, msg[p][1][1]>> : e \in Completed}
    /\ IF ~use_async
       THEN /\ mutex' = SyncWriteHolder(p)
            /\ pc' = [pc EXCEPT ![p] = "sync_write"]
            /\ UNCHANGED <<async_buf, enq, cpc, msg>>
       ELSE /\ log_enqueue(p)
            /\ UNCHANGED mutex
    /\ UNCHANGED <<pureVars, use_async, sent, filtered, rendered, handleVars, cbuf, clocal,
                   flushVars, sink>>

\* log, lines 419-421: a woken log call takes the mutex again and tests
\* the loop condition again (and nothing else).
log_resume(p) ==
    /\ pc[p] = "woken_room"
    /\ mutex = NoThread
    /\ log_enqueue(p)
    /\ UNCHANGED <<pureVars, preceded, use_async, mutex, sent, filtered, rendered, handleVars, cbuf, clocal,
                   flushVars, sink>>

\* log, lines 412-413: write_all returns, its result is discarded, the
\* mutex is released and the call returns.
log_write_done(p) ==
    /\ pc[p] = "sync_write"
    /\ \E ok \in WriteOutcomes :
          sink' = Append(sink, [by |-> ProducerT(p), bytes |-> msg[p], ok |-> ok])
    /\ mutex' = IF mutex = ProducerT(p) THEN NoThread ELSE mutex
    /\ pc' = [pc EXCEPT ![p] = "idle"]
    /\ msg' = [msg EXCEPT ![p] = <<>>]
    /\ UNCHANGED <<pureVars, preceded, use_async, async_buf, sent, filtered, rendered, handleVars,
                   consumerVars, flushVars, enq>>

\* Condvar::wait may return without a notification.
log_spurious(p) ==
    /\ pc[p] = "wait_room"
    /\ pc' = [pc EXCEPT ![p] = "woken_room"]
    /\ UNCHANGED <<pureVars, preceded, use_async, async_buf, mutex, msg, sent, filtered, rendered, handleVars,
                   consumerVars, flushVars, sink, enq>>

\* ------------------------------------------------------- Logger::run_async

\* Mutant of Taken: only the first byte of the buffer is handed over.
TakenFirstByte(buf) == IF buf = <<>> THEN <<>> ELSE SubSeq(buf, 1, 1)

\* What the swap of line 377 hands to the local buf.
Taken(buf) == buf

\* What the swap of line 377 leaves in async_buf (the cleared local buf).
LeftBehind(buf) == <<>>

\* Mutant of HolderAfterSwap: the guard lives until the end of the loop
\* body, so the consumer writes with the mutex held.
HolderAfterSwapKept(h) == ConsumerT(h)

\* The mutex holder once the block of lines 370-379 has ended.
HolderAfterSwap(h) == NoThread

\* The mode the pass records at line 375.
ObservedMode == use_async

\* run_async, lines 375-386, with the mutex held: record the mode, swap the
\* buffers, wake every producer, release the mutex; then enter write_all if
\* there is something to write, else test the loop condition.
run_async_pass(h) ==
    /\ clocal' = [clocal EXCEPT ![h] = ObservedMode]
    /\ cbuf' = [cbuf EXCEPT ![h] = Taken(async_buf)]
    /\ async_buf' = LeftBehind(async_buf)
    /\ pc' = WokenProducers
    /\ fpc' = WokenFlush
    /\ mutex' = HolderAfterSwap(h)
    /\ cpc' = [cpc EXCEPT ![h] =
                  IF Taken(async_buf) # <<>> THEN "writing"
                  ELSE IF ObservedMode THEN "top" ELSE "exited"]

\* run_async, lines 371-374: the mutex is taken; the thread parks on
\* wake_consumer if there is nothing to write and the mode is async, else
\* it goes on with the pass.
run_async_lock(h) ==
    /\ cpc[h] = "top"
    /\ mutex = NoThread
    /\ IF async_buf = <<>> /\ use_async
       THEN /\ cpc' = [cpc EXCEPT ![h] = "wait"]
            /\ UNCHANGED <<async_buf, mutex, pc, cbuf, clocal, fpc>>
       ELSE run_async_pass(h)
    /\ UNCHANGED <<pureVars, preceded, use_async, msg, sent, filtered, rendered, handleVars, flushes,
                   flushSeen, flushAsync, sink, enq>>

\* run_async, line 373: the woken thread takes the mutex again and goes on
\* with the pass, whatever it finds (an if, not a loop).
run_async_resume(h) ==
    /\ cpc[h] = "woken"
    /\ mutex = NoThread
    /\ run_async_pass(h)
    /\ UNCHANGED <<pureVars, preceded, use_async, msg, sent, filtered, rendered, handleVars, flushes,
                   flushSeen, flushAsync, sink, enq>>

\* Mutant of run_async_write_done: a failed write ends the thread (the
\* result is propagated instead of discarded).
run_async_write_done_propagate(h) ==
    /\ cpc[h] = "writing"
    /\ \E ok \in WriteOutcomes :
          /\ sink' = Append(sink, [by |-> ConsumerT(h), bytes |-> cbuf[h], ok |-> ok])
          /\ cpc' = [cpc EXCEPT ![h] = IF ok /\ clocal[h] THEN "top" ELSE "exited"]
    /\ cbuf' = [cbuf EXCEPT ![h] = <<>>]
    /\ mutex' = IF mutex = ConsumerT(h) THEN NoThread ELSE mutex
    /\ UNCHANGED <<pureVars, preceded, use_async, async_buf, producerVars, filtered, rendered, handleVars,
                   clocal, flushVars, enq>>

\* run_async, lines 382-386 and 368: write_all returns, its result is
\* discarded, and the loop goes on while the recorded mode was async.
run_async_write_done(h) ==
    /\ cpc[h] = "writing"
    /\ \E ok \in WriteOutcomes :
          sink' = Append(sink, [by |-> ConsumerT(h), bytes |-> cbuf[h], ok |-> ok])
    /\ cbuf' = [cbuf EXCEPT ![h] = <<>>]
    /\ cpc' = [cpc EXCEPT ![h] = IF clocal[h] THEN "top" ELSE "exited"]
    /\ mutex' = IF mutex = ConsumerT(h) THEN NoThread ELSE mutex
    /\ UNCHANGED <<pureVars, preceded, use_async, async_buf, producerVars, filtered, rendered, handleVars,
                   clocal, flushVars, enq>>

\* Condvar::wait may return without a notification.
run_async_spurious(h) ==
    /\ cpc[h] = "wait"
    /\ cpc' = [cpc EXCEPT ![h] = "woken"]
    /\ UNCHANGED <<pureVars, preceded, use_async, async_buf, mutex, producerVars, filtered, rendered,
                   handleVars, cbuf, clocal, flushVars, sink, enq>>

\* ------------------------------------- Handle::async_scope, AsyncHandle::drop

\* Mutant of AfterEnableAssert: the assertion is missing.
AfterEnableNoAssert(was_async) == "spawning"

\* The outcome of assert!(!was_async), line 307.
AfterEnableAssert(was_async) == IF was_async THEN "panicked" ELSE "spawning"

\* async_scope, lines 303-307: under the mutex use_async is replaced by
\* true; the mutex is released and the old value asserted to be false.
async_scope_lock(h) ==
    /\ hpc[h] = "idle"
    /\ scopes[h] < MaxScopes
    /\ mutex = NoThread
    /\ use_async' = TRUE
    /\ hpc' = [hpc EXCEPT ![h] = AfterEnableAssert(use_async)]
    /\ scopes' = [scopes EXCEPT ![h] = @ + 1]
    /\ UNCHANGED <<pureVars, preceded, async_buf, mutex, producerVars, filtered, rendered, consumerVars,
                   flushVars, sink, enq, dropSeen, lateDrop>>

\* async_scope, lines 308-317: the consumer thread is spawned and the
\* AsyncHandle returned.
async_scope_spawn(h) ==
    /\ hpc[h] = "spawning"
    /\ cpc[h] = "none"
    /\ cpc' = [cpc EXCEPT ![h] = "top"]
    /\ hpc' = [hpc EXCEPT ![h] = "scoped"]
    /\ UNCHANGED <<pureVars, preceded, use_async, async_buf, mutex, producerVars, filtered, rendered, scopes,
                   dropSeen, lateDrop, cbuf, clocal, flushVars, sink, enq>>

\* The outcome of assert!(was_async), line 333.
AfterDropAssert(was_async) == IF was_async THEN "joining" ELSE "panicked"

\* drop, lines 327-333: the AsyncHandle goes out of scope; under the mutex
\* the consumer is notified and use_async replaced by false; the old value
\* is asserted to be true.  (The call begins and takes the mutex in one
\* step: the caller touches nothing shared in between.)
drop_lock(h) ==
    /\ hpc[h] = "scoped"
    /\ mutex = NoThread
    /\ NotifyOneConsumer
    /\ use_async' = FALSE
    /\ hpc' = [hpc EXCEPT ![h] = AfterDropAssert(use_async)]
    /\ dropSeen' = [dropSeen EXCEPT ![h] = EnqSet]
    /\ lateDrop' = (lateDrop /\ AllProducersDone)
    /\ UNCHANGED <<pureVars, preceded, async_buf, mutex, producerVars, filtered, rendered, scopes, cbuf,
                   clocal, flushVars, sink, enq>>

\* drop, line 334: join returns once the consumer thread has exited.
drop_join(h) ==
    /\ hpc[h] = "joining"
    /\ cpc[h] = "exited"
    /\ hpc' = [hpc EXCEPT ![h] = "idle"]
    /\ cpc' = [cpc EXCEPT ![h] = "none"]
    /\ UNCHANGED <<pureVars, preceded, use_async, async_buf, mutex, producerVars, filtered, rendered, scopes,
                   dropSeen, lateDrop, cbuf, clocal, flushVars, sink, enq>>

\* --------------------------------------------------------------- Log::flush

\* The loop condition of line 429.
FlushMustWait(buf) == buf # <<>>

\* flush, lines 426-432: flush is called and the mutex taken; in async mode
\* the call parks on wake_producers while async_buf is not empty.  (The
\* call begins and takes the mutex in one step: the caller touches nothing
\* shared in between.)
flush_lock ==
    /\ fpc \in {"idle", "returned"}
    /\ flushes < MaxFlushes
    /\ mutex = NoThread
    /\ flushes' = flushes + 1
    /\ flushSeen' = EnqSet
    /\ flushAsync' = use_async
    /\ fpc' = IF use_async /\ FlushMustWait(async_buf) THEN "wait" ELSE "returned"
    /\ UNCHANGED <<pureVars, preceded, use_async, async_buf, mutex, producerVars, filtered, rendered,
                   handleVars, consumerVars, sink, enq>>

\* flush, lines 429-431: a woken flush call takes the mutex again and
\* tests the loop condition again.
flush_resume ==
    /\ fpc = "woken"
    /\ mutex = NoThread
    /\ fpc' = IF FlushMustWait(async_buf) THEN "wait" ELSE "returned"
    /\ UNCHANGED <<pureVars, preceded, use_async, async_buf, mutex, producerVars, filtered, rendered,
                   handleVars, consumerVars, flushes, flushSeen, flushAsync,
                   sink, enq>>

\* Condvar::wait may return without a notification.
flush_spurious ==
    /\ fpc = "wait"
    /\ fpc' = "woken"
    /\ UNCHANGED <<pureVars, preceded, use_async, async_buf, mutex, producerVars, filtered, rendered,
                   handleVars, consumerVars, flushes, flushSeen, flushAsync,
                   sink, enq>>

\* ------------------------------------------------------------- specification

Next ==
    \/ \E p \in Producers : log_filtered(p)
    \/ \E p \in Producers : log_render(p)
    \/ \E p \in Producers : log_lock(p)
    \/ \E p \in Producers : log_resume(p)
    \/ \E p \in Producers : log_write_done(p)
    \/ \E p \in Producers : log_spurious(p)
    \/ \E h \in Handles : run_async_lock(h)
    \/ \E h \in Handles : run_async_resume(h)
    \/ \E h \in Handles : run_async_write_done(h)
    \/ \E h \in Handles : run_async_spurious(h)
    \/ \E h \in Handles : async_scope_lock(h)
    \/ \E h \in Handles : async_scope_spawn(h)
    \/ \E h \in Handles : drop_lock(h)
    \/ \E h \in Handles : drop_join(h)
    \/ flush_lock
    \/ flush_resume
    \/ flush_spurious

Spec == Init /\ [][Next]_vars

\* The scheduling the threads can count on: a thread that can take its
\* next step (take the free mutex, return from a sink write, start after
\* being spawned, return from join once the thread has ended) takes it in
\* the end.  Nothing makes the application call log, flush, async_scope or
\* drop its AsyncHandle, and nothing makes Condvar::wait return without a
\* notification.
Fairness ==
    /\ \A p \in Producers :
          WF_vars(log_lock(p)) /\ WF_vars(log_resume(p)) /\ WF_vars(log_write_done(p))
    /\ \A h \in Handles :
          /\ WF_vars(run_async_lock(h)) /\ WF_vars(run_async_resume(h))
          /\ WF_vars(run_async_write_done(h))
          /\ WF_vars(async_scope_spawn(h)) /\ WF_vars(drop_join(h))
    /\ WF_vars(flush_resume)

FairSpec == Init /\ [][Next]_vars /\ Fairness

\* -------------------------------------------------- Specification (spec.rs)

\* A string is a sequence of one-character strings.

\* The names LevelFilter's FromStr accepts, in lower case.
LevelNames ==
    [Off |-> <<"o", "f", "f">>, Error |-> <<"e", "r", "r", "o", "r">>,
     Warn |-> <<"w", "a", "r", "n">>, Info |-> <<"i", "n", "f", "o">>,
     Debug |-> <<"d", "e", "b", "u", "g">>, Trace |-> <<"t", "r", "a", "c", "e">>]

Levels == DOMAIN LevelNames

\* The upper-case letters of the level names.
UpperCase ==
    [A |-> "a", B |-> "b", C |-> "c", D |-> "d", E |-> "e", F |-> "f", G |-> "g",
     I |-> "i", N |-> "n", O |-> "o", R |-> "r", T |-> "t", U |-> "u", W |-> "w"]

to_ascii_lowercase(s) ==
    [i \in 1 .. Len(s) |-> IF s[i] \in DOMAIN UpperCase THEN UpperCase[s[i]] ELSE s[i]]

\* str::parse::<LevelFilter>: the level whose name s is, whatever the case
\* of its letters; "Err" if s is no level name.
parse(s) ==
    IF \E l \in Levels : LevelNames[l] = to_ascii_lowercase(s)
    THEN CHOOSE l \in Levels : LevelNames[l] = to_ascii_lowercase(s)
    ELSE "Err"

\* The place of the first sep in s, or 0.
find(s, sep) ==
    IF \E i \in 1 .. Len(s) : s[i] = sep
    THEN CHOOSE i \in 1 .. Len(s) : s[i] = sep /\ \A j \in 1 .. i - 1 : s[j] # sep
    ELSE 0

RECURSIVE split(_, _)
\* str::split: the pieces of s between the occurrences of sep.
split(s, sep) ==
    LET i == find(s, sep)
    IN  IF i = 0 THEN <<s>>
        ELSE <<SubSeq(s, 1, i - 1)>> \o split(SubSeq(s, i + 1, Len(s)), sep)

\* str::splitn(2, sep): s cut at its first sep, if it has one.
splitn2(s, sep) ==
    LET i == find(s, sep)
    IN  IF i = 0 THEN <<s>>
        ELSE <<SubSeq(s, 1, i - 1), SubSeq(s, i + 1, Len(s))>>

\* Specification::new, lines 17-39: what one token d of the string pushes
\* onto directives: nothing, or one (level, prefix).
pushed(d) ==
    IF d = <<>> THEN <<>>
    ELSE LET parts == splitn2(d, "=")
         IN  IF Len(parts) = 1
             THEN IF parse(parts[1]) # "Err"
                  THEN << <<parse(parts[1]), <<>> >> >>
                  ELSE << <<"Trace", parts[1]>> >>
             ELSE IF parse(parts[2]) # "Err"
                  THEN << <<parse(parts[2]), parts[1]>> >>
                  ELSE <<>>

RECURSIVE pushed_all(_)
\* Specification::new, line 16: the loop over the tokens, in order.
pushed_all(tokens) ==
    IF tokens = <<>> THEN <<>>
    ELSE pushed(Head(tokens)) \o pushed_all(Tail(tokens))

\* Mutant of with_default: an empty list is left empty.
with_default_missing(ds) == ds

\* Specification::new, lines 42-44.
with_default(ds) == IF ds = <<>> THEN << <<"Error", <<>> >> >> ELSE ds

RECURSIVE with_prefix_len(_, _)
\* The directives of ds whose prefix has n characters or fewer, those with
\* the longer prefix first, in their order in ds within one length.
with_prefix_len(ds, n) ==
    SelectSeq(ds, LAMBDA d : Len(d[2]) = n)
        \o (IF n = 0 THEN <<>> ELSE with_prefix_len(ds, n - 1))

\* The length of the longest prefix of ds.
longest(ds) ==
    IF ds = <<>> THEN 0
    ELSE CHOOSE n \in {Len(ds[i][2]) : i \in 1 .. Len(ds)} :
             \A i \in 1 .. Len(ds) : Len(ds[i][2]) <= n

\* Mutant of sort_by_key: the directives are left in the order of the
\* string.
sort_by_key_missing(ds) == ds

\* Specification::new, line 47: the stable sort by usize::max_value() minus
\* the length of the prefix.
sort_by_key(ds) == with_prefix_len(ds, longest(ds))

\* Specification::new, lines 48-52: the greatest level of ds, Off if ds is
\* empty.
max_level(ds) ==
    IF ds = <<>> THEN "Off"
    ELSE CHOOSE l \in {ds[i][1] : i \in 1 .. Len(ds)} :
             \A i \in 1 .. Len(ds) : LevelOrd[ds[i][1]] <= LevelOrd[l]

\* Specification::new: the directives and max it returns for the string s.
new(s) ==
    LET ds == sort_by_key(with_default(pushed_all(split(s, ","))))
    IN  [directives |-> ds, max |-> max_level(ds)]

\* The texts of the tokens the directive strings are made of: an empty
\* token, a bare prefix, a bare level, prefix=level with two prefixes one of
\* which extends the other and with one prefix twice, a level that does not
\* parse, an empty prefix with a level in mixed case.
TokenTexts ==
    { <<>>,
      <<"a", "b">>,
      <<"i", "n", "f", "o">>,
      <<"a", "=", "o", "f", "f">>,
      <<"a", "=", "t", "r", "a", "c", "e">>,
      <<"a", "b", "=", "w", "a", "r", "n">>,
      <<"a", "=", "x">>,
      <<"=", "D", "e", "b", "u", "g">> }

RECURSIVE join(_)
\* The tokens joined by commas.
join(tokens) ==
    IF Len(tokens) = 1 THEN tokens[1]
    ELSE tokens[1] \o <<",">> \o join(Tail(tokens))

\* The directive strings: one to MaxTokens tokens.
DirectiveStrings ==
    {join(ts) : ts \in UNION {[1 .. n -> TokenTexts] : n \in 1 .. MaxTokens}}

\* The modules get_level is asked about: every prefix of the tokens, one
\* module longer than all of them and one that no prefix but "" matches.
Modules == { <<>>, <<"a">>, <<"a", "b">>, <<"a", "b", "c">>, <<"b">> }

\* A directive string is chosen; nothing is compiled yet.
SpecificationInit ==
    /\ LoggerInit
    /\ EntryBuf_new
    /\ spec_str \in DirectiveStrings
    /\ spec_built = FALSE
    /\ spec_directives = <<>>
    /\ spec_max = "Off"
    /\ spec_query = NoQuery

\* Specification::new(spec_str), lines 14-54.
Specification_new ==
    /\ ~spec_built
    /\ spec_built' = TRUE
    /\ LET compiled == new(spec_str)
       IN  /\ spec_directives' = compiled.directives
           /\ spec_max' = compiled.max
    /\ UNCHANGED <<loggerVars, entryVars, spec_str, spec_query>>

\* Specification::get_level(module), lines 56-63, for some module.
Specification_get_level ==
    /\ spec_built
    /\ \E module \in Modules :
          spec_query' = [module |-> module, level |-> get_level(spec_directives, module)]
    /\ UNCHANGED <<loggerVars, entryVars, spec_str, spec_built, spec_directives, spec_max>>

SpecificationNext ==
    \/ Specification_new
    \/ Specification_get_level

SpecificationSpec == SpecificationInit /\ [][SpecificationNext]_vars

\* ------------------------------------------------- EntryBuf (entry_buf.rs)

\* The characters the texts are made of, each the bytes of its UTF-8
\* encoding: "a", U+00E9 and U+20AC.
Chars == { <<97>>, <<195, 169>>, <<226, 130, 172>> }

\* The texts given to write_str: up to MaxTextChars characters.
Texts == UNION {[1 .. n -> Chars] : n \in 0 .. MaxTextChars}

RECURSIVE as_bytes(_)
\* str::as_bytes: the bytes of the characters, in order.
as_bytes(text) ==
    IF text = <<>> THEN <<>> ELSE Head(text) \o as_bytes(Tail(text))

\* b'\n'.
Newline == 10

\* (b & 0b1100_0000) == 0b1000_0000, line 92.
is_continuation(b) == (b \div 64) % 4 = 2

RECURSIVE backed_up(_, _)
\* The loop of lines 92-95 from the cut n (s[n] in the source, which counts
\* from 0, is s[n + 1] here).
backed_up(s, n) ==
    IF n > 0 /\ is_continuation(s[n + 1]) THEN backed_up(s, n - 1) ELSE n

\* Mutant of to_write: the cut is not moved back to the start of a
\* character.
to_write_cut(len, s) ==
    IF Len(s) > ENTRY_SIZE - 1 - len THEN ENTRY_SIZE - 1 - len ELSE Len(s)

\* write_str, lines 89-96: the number of bytes of s to copy when len bytes
\* are in use.
to_write(len, s) ==
    IF Len(s) > ENTRY_SIZE - 1 - len
    THEN backed_up(s, ENTRY_SIZE - 1 - len)
    ELSE Len(s)

\* Mutant of copy_nonoverlapping: the bytes are copied to the start of buf
\* instead of to the unwritten part.
copy_to_start(buf, len, s, n) ==
    [i \in 1 .. ENTRY_SIZE |-> IF i <= n THEN s[i] ELSE buf[i]]

\* write_str, lines 97-99: the first n bytes of s are copied to buf from
\* offset len on (unwritten(), lines 56-58).
copy_nonoverlapping(buf, len, s, n) ==
    [i \in 1 .. ENTRY_SIZE |-> IF len < i /\ i <= len + n THEN s[i - len] ELSE buf[i]]

\* Mutant of write_result: a call that wrote nothing reports an error.
write_result_nothing_written(n, s) ==
    IF n = Len(s) /\ n > 0 THEN "Ok" ELSE "Err"

\* write_str, lines 101-105: the result when n bytes of s were copied.
write_result(n, s) == IF n = Len(s) THEN "Ok" ELSE "Err"

\* EntryBuf::write_str(text), lines 83-106, for some text.
EntryBuf_write_str ==
    /\ entry_state = "Writing"
    /\ Len(entry_calls) < MaxAppends
    /\ \E text \in Texts :
          IF entry_len = ENTRY_SIZE
          THEN /\ entry_calls' = Append(entry_calls,
                                        [text |-> text, len |-> entry_len, result |-> "Err"])
               /\ UNCHANGED <<entry_buf, entry_len>>
          ELSE /\ entry_buf' = copy_nonoverlapping(entry_buf, entry_len, as_bytes(text),
                                                   to_write(entry_len, as_bytes(text)))
               /\ entry_len' = entry_len + to_write(entry_len, as_bytes(text))
               /\ entry_calls' =
                     Append(entry_calls,
                            [text |-> text, len |-> entry_len,
                             result |-> write_result(to_write(entry_len, as_bytes(text)),
                                                     as_bytes(text))])
    /\ UNCHANGED <<loggerVars, specificationVars, entry_state>>

\* EntryBuf::terminate, lines 41-52: the newline is written at offset len
\* and the buffer becomes readable.
EntryBuf_terminate ==
    /\ entry_state = "Writing"
    /\ entry_buf' = [entry_buf EXCEPT ![entry_len + 1] = Newline]
    /\ entry_len' = entry_len + 1
    /\ entry_state' = "Reading"
    /\ UNCHANGED <<loggerVars, specificationVars, entry_calls>>

\* EntryBuf::get, lines 63-74: the first len bytes of buf.
get == SubSeq(entry_buf, 1, entry_len)

EntryBufNext ==
    \/ EntryBuf_write_str
    \/ EntryBuf_terminate

EntryBufSpec == Init /\ [][EntryBufNext]_vars

\* ------------------------------------------------------------ observations

RECURSIVE BytesOf(_)
\* The concatenation of the bytes of a sequence of writes.
BytesOf(ws) == IF ws = <<>> THEN <<>> ELSE Head(ws).bytes \o BytesOf(Tail(ws))

\* The bytes the sink has received: those of the writes that succeeded.
Received == BytesOf(SelectSeq(sink, LAMBDA w : w.ok))

\* The places at which the byte sequence m occurs in bytes.
Occurrences(m, bytes) ==
    {i \in 1 .. Len(bytes) : i + Len(m) - 1 <= Len(bytes) /\ SubSeq(bytes, i, i + Len(m) - 1) = m}

\* The places at which a byte of entry e occurs in bytes.
Positions(e, bytes) == {i \in 1 .. Len(bytes) : bytes[i][1] = e}

\* Entry e has been written to the sink, whole.
Delivered(e) ==
    \E m \in rendered : m[1][1] = e /\ Occurrences(m, Received) # {}

RECURSIVE SumLen(_)
\* The total length of a set of rendered entries.
SumLen(S) ==
    IF S = {} THEN 0
    ELSE LET m == CHOOSE x \in S : TRUE IN Len(m) + SumLen(S \ {m})

\* A drop call of Handle h has returned (and h has not opened a scope since).
DropReturned(h) == hpc[h] = "idle" /\ scopes[h] > 0

\* No scope is open or being opened or closed, and no consumer thread exists.
NoScope == \A h \in Handles : hpc[h] \in {"idle", "panicked"} /\ cpc[h] = "none"

\* The threads inside Logger::write_all.
InWrite ==
    {ProducerT(p) : p \in {q \in Producers : pc[q] = "sync_write"}}
        \cup {ConsumerT(h) : h \in {g \in Handles : cpc[g] = "writing"}}

\* The entries that begin in a byte sequence, in order.
EntrySeq(bytes) ==
    LET firsts == SelectSeq(bytes, LAMBDA b : b[2] = 1)
    IN  [i \in 1 .. Len(firsts) |-> firsts[i][1]]

RECURSIVE IsConcat(_)
\* bytes is a concatenation of rendered entries, each whole.
IsConcat(bytes) ==
    \/ bytes = <<>>
    \/ \E m \in rendered :
          /\ Len(m) <= Len(bytes)
          /\ SubSeq(bytes, 1, Len(m)) = m
          /\ IsConcat(SubSeq(bytes, Len(m) + 1, Len(bytes)))

\* es is a run of consecutive entries of the append order.
ConsecutiveInEnq(es) ==
    \E k \in 1 .. Len(enq) :
        k + Len(es) - 1 <= Len(enq) /\ SubSeq(enq, k, k + Len(es) - 1) = es

\* What log may hand to write_all: one rendered entry.
SyncWriteOk(bytes) == bytes \in rendered

\* What run_async may hand to write_all: one or more whole entries,
\* consecutive in the append order.
ConsumerWriteOk(bytes) ==
    /\ bytes # <<>>
    /\ IsConcat(bytes)
    /\ ConsecutiveInEnq(EntrySeq(bytes))

\* The rendered entry m is held somewhere: by its log call, in async_buf,
\* in a consumer's local buf, or in a write handed to the sink.
Held(m) ==
    \/ \E p \in Producers : msg[p] = m
    \/ Occurrences(m, async_buf) # {}
    \/ \E h \in Handles : Occurrences(m, cbuf[h]) # {}
    \/ \E i \in 1 .. Len(sink) : Occurrences(m, sink[i].bytes) # {}

\* The place of entry e in the append order.
EnqPos(e) == CHOOSE k \in 1 .. Len(enq) : enq[k] = e

\* The entries the sink received from consumer threads, in order.
ConsumerReceived ==
    EntrySeq(BytesOf(SelectSeq(sink, LAMBDA w : w.ok /\ w.by[1] = "consumer")))

\* --------------------------------------------------------------- the claims

\* C1: when every producer has logged its LogsPerProducer accepted entries,
\* async mode was disabled only after all producers had finished, the
\* disable has returned (no scope is left open) and the sink accepted every
\* write, the sink holds every logged entry exactly once, whole, and
\* nothing else: NumProducers * LogsPerProducer entries, and as many bytes
\* as the entries' lengths add up to.
C1_ExactlyOnce ==
    (/\ AllProducersDone
     /\ lateDrop
     /\ \E h \in Handles : DropReturned(h)
     /\ NoScope
     /\ FailedWrites = 0)
    => /\ Cardinality(rendered) = NumProducers * LogsPerProducer
       /\ \A m \in rendered :
             /\ Cardinality(Occurrences(m, Received)) = 1
             /\ Cardinality(Positions(m[1][1], Received)) = Len(m)
       /\ Len(Received) = SumLen(rendered)

\* C1's case: the scenario has run to its end with every entry having gone
\* through async_buf.
C1_Witness ==
    /\ AllProducersDone
    /\ lateDrop
    /\ \E h \in Handles : DropReturned(h)
    /\ NoScope
    /\ FailedWrites = 0
    /\ Len(enq) = NumProducers * LogsPerProducer
    /\ Len(Received) = SumLen(rendered)

\* C2: when a drop call has returned (and the sink accepted every write),
\* every entry appended to async_buf before that call began has been
\* written to the sink.
C2_DisableDrains ==
    \A h \in Handles :
        (DropReturned(h) /\ FailedWrites = 0)
        => \A e \in dropSeen[h] : Delivered(e)

\* C3: when a flush call that found the mode async has returned (and the
\* sink accepted every write), every entry enqueued before the call began
\* has been written to the sink.
C3_FlushBlocksUntilWritten ==
    (fpc = "returned" /\ flushAsync /\ FailedWrites = 0)
    => \A e \in flushSeen : Delivered(e)

\* C4: async_buf never holds more than ASYNC_BUF_SIZE bytes, a log call
\* that found no room keeps its entry while it waits, and every accepted
\* entry is held somewhere (by its log call, in async_buf, in a consumer's
\* buf or in a write handed to the sink): none is discarded.
C4_Backpressure ==
    /\ Len(async_buf) <= ASYNC_BUF_SIZE
    /\ \A p \in Producers :
          pc[p] \in {"wait_room", "woken_room"} => msg[p] \in rendered
    /\ \A m \in rendered : Held(m)

\* C4's case: a log call is parked because its entry does not fit.
C4_Witness ==
    \E p \in Producers :
        /\ pc[p] = "wait_room"
        /\ Len(async_buf) + Len(msg[p]) > ASYNC_BUF_SIZE
        /\ Len(async_buf) <= ASYNC_BUF_SIZE

\* C5: every write handed to the sink, finished or in progress, consists of
\* whole entries: a write by log is exactly one entry, a write by the
\* consumer is one or more whole entries, consecutive in the append order.
C5_WholeEntries ==
    /\ \A i \in 1 .. Len(sink) :
          IF sink[i].by[1] = "producer"
          THEN SyncWriteOk(sink[i].bytes)
          ELSE ConsumerWriteOk(sink[i].bytes)
    /\ \A p \in Producers : pc[p] = "sync_write" => SyncWriteOk(msg[p])
    /\ \A h \in Handles : cpc[h] = "writing" => ConsumerWriteOk(cbuf[h])

\* C5's case: the sink has taken a coalesced write of two entries, one of
\* them longer than a byte, from the consumer.
C5_Witness ==
    \E i \in 1 .. Len(sink) :
        /\ sink[i].by[1] = "consumer"
        /\ Len(EntrySeq(sink[i].bytes)) >= 2
        /\ Len(sink[i].bytes) > 2

\* C6: the sink receives the entries that went through async_buf in the
\* order in which they were appended to it.
C6_Fifo ==
    \A i, j \in 1 .. Len(ConsumerReceived) :
        i < j => EnqPos(ConsumerReceived[i]) < EnqPos(ConsumerReceived[j])

\* C7: at most one thread is inside a sink write at any time.
C7_OneWriter == Cardinality(InWrite) <= 1

\* C8: while a consumer is inside a sink write it does not hold the mutex,
\* and a log call that is about to take the mutex in async mode with an
\* entry that fits can take it, append and return at once.
C8_NoIoWait ==
    \A h \in Handles :
        cpc[h] = "writing"
        => /\ mutex # ConsumerT(h)
           /\ \A p \in Producers :
                 (pc[p] = "lock" /\ use_async /\ HasRoom(async_buf, msg[p]))
                 => ENABLED (log_lock(p) /\ pc'[p] = "idle"
                             /\ async_buf' = async_buf \o msg[p])

\* C8's case: a consumer is inside a sink write while a log call whose
\* entry fits is about to take the mutex.
C8_Witness ==
    \E h \in Handles, p \in Producers :
        /\ cpc[h] = "writing"
        /\ pc[p] = "lock"
        /\ use_async
        /\ HasRoom(async_buf, msg[p])

\* C9: a log call that returns at the filter gate changes nothing: not the
\* mutex, not async_buf or the mode, no thread's position (nobody is
\* woken), not the sink.
C9_FilterGate ==
    [][filtered' # filtered
       => UNCHANGED <<use_async, async_buf, mutex, pc, msg, sent, rendered,
                      hpc, cpc, cbuf, clocal, fpc, sink, enq>>]_vars

\* C9's case: a log call has returned at the gate, and entries are queued
\* in async_buf.
C9_Witness ==
    /\ filtered > 0
    /\ async_buf # <<>>

\* C10: an async_scope call that finds the mode async ends in the failed
\* assertion and stays there: it spawns no consumer, returns no AsyncHandle,
\* and leaves the mode async and every consumer thread as it was.
C10_ModeViolation ==
    [][\A h \in Handles :
          /\ (hpc[h] = "idle" /\ hpc'[h] # "idle" /\ use_async)
             => /\ hpc'[h] = "panicked"
                /\ use_async'
                /\ UNCHANGED <<cpc, cbuf, clocal, async_buf>>
          /\ hpc[h] = "panicked"
             => hpc'[h] = "panicked" /\ cpc'[h] = cpc[h]]_vars

\* C10's case: an async_scope call has panicked while another Handle's
\* consumer goes on running in async mode.
C10_Witness ==
    \E h, g \in Handles :
        /\ hpc[h] = "panicked"
        /\ cpc[h] = "none"
        /\ hpc[g] = "scoped"
        /\ cpc[g] # "none"
        /\ use_async

\* The consumer threads that are running: spawned and not yet finished.
AliveConsumers == {h \in Handles : cpc[h] \in {"top", "wait", "woken", "writing"}}

\* C11: use_async changes from false to true only when no consumer thread
\* is running, and at most one consumer thread is alive in every state.
C11_OneConsumer ==
    [][/\ (~use_async /\ use_async') => AliveConsumers = {}
       /\ Cardinality(AliveConsumers') <= 1]_vars

\* The bytes that are somewhere other than in the write sink[i]: held by a
\* log call, queued, in a consumer's buf, or in another write.
BytesElsewhere(i) ==
    UNION {{msg[p][k] : k \in 1 .. Len(msg[p])} : p \in Producers}
    \cup {async_buf[k] : k \in 1 .. Len(async_buf)}
    \cup UNION {{cbuf[h][k] : k \in 1 .. Len(cbuf[h])} : h \in Handles}
    \cup UNION {{sink[j].bytes[k] : k \in 1 .. Len(sink[j].bytes)} :
                    j \in (1 .. Len(sink)) \ {i}}

\* No byte of a failed write is held anywhere else: it is not queued again
\* and was not, or will not be, written by another write.
FailedWritesDropped ==
    \A i \in 1 .. Len(sink) :
        ~sink[i].ok
        => {sink[i].bytes[k] : k \in 1 .. Len(sink[i].bytes)} \cap BytesElsewhere(i) = {}

\* C12: a step in which a sink write fails changes what the same step does
\* when the write succeeds and nothing more: use_async and async_buf are
\* untouched, no other thread's position changes, a log call returns to
\* its caller, a consumer drops its buf and goes on with its loop (or
\* exits if its pass had read use_async false); and the bytes of a failed
\* write are never queued or written again.
C12_WriteFailureDiscarded ==
    [][/\ (Len(sink') = Len(sink) + 1 /\ ~sink'[Len(sink')].ok)
          => LET w == sink'[Len(sink')]
             IN  /\ UNCHANGED <<use_async, async_buf, hpc, fpc, clocal>>
                 /\ w.by[1] = "producer"
                    => /\ pc' = [pc EXCEPT ![w.by[2]] = "idle"]
                       /\ UNCHANGED <<cpc, cbuf>>
                 /\ w.by[1] = "consumer"
                    => /\ cpc' = [cpc EXCEPT ![w.by[2]] =
                                     IF clocal[w.by[2]] THEN "top" ELSE "exited"]
                       /\ cbuf' = [cbuf EXCEPT ![w.by[2]] = <<>>]
                       /\ UNCHANGED pc
       /\ FailedWritesDropped']_vars

\* C12's case: a consumer's write failed, and the same consumer has gone on
\* to write later entries successfully.
C12_Witness ==
    \E i, j \in 1 .. Len(sink) :
        /\ i < j
        /\ ~sink[i].ok
        /\ sink[i].by[1] = "consumer"
        /\ sink[j].by = sink[i].by
        /\ sink[j].ok

\* C19: a consumer parked on wake_consumer finds async_buf empty and the
\* mode async; a log call parked on wake_producers has an entry that does
\* not fit, and took the mutex in async mode; a log call that takes the
\* mutex in sync mode does not park.
C19_SuspensionPoints ==
    [][/\ \A h \in Handles :
             cpc'[h] = "wait" => (async_buf' = <<>> /\ use_async')
       /\ \A p \in Producers :
             /\ pc'[p] = "wait_room"
                => Len(async_buf') + Len(msg'[p]) > ASYNC_BUF_SIZE
             /\ (pc[p] = "lock" /\ pc'[p] = "wait_room") => use_async
             /\ (pc[p] = "lock" /\ pc'[p] # "lock" /\ ~use_async)
                => pc'[p] = "sync_write"]_vars

\* The directives of spec_str in the order in which the string gives them
\* (the default one if it gives none).
InOrder == with_default(pushed_all(split(spec_str, ",")))

\* The directives of ds whose prefix is a prefix of the module.
Matching(ds, module) ==
    {i \in 1 .. Len(ds) : StartsWith(module, ds[i][2])}

\* Among the matching directives of ds, the one with the longest prefix,
\* and of those with a prefix of that length the first of ds.
Best(ds, module) ==
    CHOOSE i \in Matching(ds, module) :
        \A j \in Matching(ds, module) :
            \/ Len(ds[j][2]) < Len(ds[i][2])
            \/ Len(ds[j][2]) = Len(ds[i][2]) /\ i <= j

\* C13: get_level returns the level of the matching directive with the
\* longest prefix, the first of the string among those of equal length,
\* and Off if no directive matches.
C13_LongestPrefix ==
    (spec_built /\ spec_query # NoQuery)
    => LET ds == InOrder
       IN  spec_query.level =
              IF Matching(ds, spec_query.module) = {} THEN "Off"
              ELSE ds[Best(ds, spec_query.module)][1]

\* C13's case: get_level was asked about a module that two directives with
\* the same prefix and different levels match, and a directive with a
\* longer prefix that comes later in the string.
C13_Witness ==
    /\ spec_built
    /\ spec_query # NoQuery
    /\ LET ds == InOrder
       IN  \E i, j \in Matching(ds, spec_query.module) :
              /\ i < j
              /\ ds[i][2] = ds[j][2]
              /\ ds[i][1] # ds[j][1]
              /\ Best(ds, spec_query.module) > j

\* No token of spec_str gives a directive: each is empty or has a '='
\* followed by something that is no level name.
NoSurvivor ==
    LET tokens == split(spec_str, ",")
    IN  \A k \in 1 .. Len(tokens) :
           \/ tokens[k] = <<>>
           \/ /\ find(tokens[k], "=") # 0
              /\ parse(SubSeq(tokens[k], find(tokens[k], "=") + 1, Len(tokens[k]))) = "Err"

\* C14: the compiled list is never empty, and when no token of the string
\* gives a directive it is the single directive ("", Error): max is Error
\* and get_level answers Error for every module.
C14_DirectiveDefault ==
    spec_built
    => /\ spec_directives # <<>>
       /\ NoSurvivor
          => /\ spec_directives = << <<"Error", <<>> >> >>
             /\ spec_max = "Error"
             /\ spec_query # NoQuery => spec_query.level = "Error"

\* C14's case: a string with an empty token and a token whose level does
\* not parse, and nothing else, was compiled and asked about a module.
C14_Witness ==
    /\ spec_built
    /\ NoSurvivor
    /\ LET tokens == split(spec_str, ",")
       IN  /\ \E k \in 1 .. Len(tokens) : tokens[k] = <<>>
           /\ \E k \in 1 .. Len(tokens) : tokens[k] # <<>>
    /\ spec_query # NoQuery
    /\ spec_query.module # <<>>

\* C15: some module has the level max: get_level answers max for it.
C15_MaxReachable ==
    spec_built => \E module \in Modules : get_level(spec_directives, module) = spec_max

RECURSIVE AppendedBytes(_)
\* The bytes of the texts of the calls, in order.
AppendedBytes(calls) ==
    IF calls = <<>> THEN <<>>
    ELSE as_bytes(Head(calls).text) \o AppendedBytes(Tail(calls))

\* C16: when the texts appended so far have ENTRY_SIZE - 1 bytes or fewer
\* in all, every write_str call returned Ok, and once the buffer is
\* terminated get() is those texts, in order, and one newline: one byte
\* more than the texts, and no more than ENTRY_SIZE.
C16_RoundTrip ==
    Len(AppendedBytes(entry_calls)) <= ENTRY_SIZE - 1
    => /\ \A i \in 1 .. Len(entry_calls) : entry_calls[i].result = "Ok"
       /\ entry_state = "Reading"
          => /\ get = AppendedBytes(entry_calls) \o <<Newline>>
             /\ entry_len = Len(AppendedBytes(entry_calls)) + 1
             /\ entry_len <= ENTRY_SIZE

\* C16's case: two or more appends of non-empty texts, one of them with a
\* multi-byte character, filled the buffer to the last byte but one, and
\* the buffer was terminated.
C16_Witness ==
    /\ entry_state = "Reading"
    /\ Len(entry_calls) >= 2
    /\ \A i \in 1 .. Len(entry_calls) : entry_calls[i].text # <<>>
    /\ \E i \in 1 .. Len(entry_calls) : Len(entry_calls[i].text[1]) > 1
    /\ Len(AppendedBytes(entry_calls)) = ENTRY_SIZE - 1

RECURSIVE Fit(_, _)
\* The number of bytes of the longest run of whole characters at the start
\* of the text that has room bytes or fewer.
Fit(text, room) ==
    IF text = <<>> \/ Len(Head(text)) > room THEN 0
    ELSE Len(Head(text)) + Fit(Tail(text), room - Len(Head(text)))

RECURSIVE ContentAfter(_, _)
\* What the buffer should hold after the calls, made on a buffer that
\* holds content: of each text, the whole characters that fit.
ContentAfter(calls, content) ==
    IF calls = <<>> THEN content
    ELSE ContentAfter(Tail(calls),
                      content \o SubSeq(as_bytes(Head(calls).text), 1,
                                        Fit(Head(calls).text, ENTRY_SIZE - 1 - Len(content))))

\* What the buffer should hold when call i is made.
ContentBefore(i) == ContentAfter(SubSeq(entry_calls, 1, i - 1), <<>>)

\* C17: each write_str call writes the longest run of whole characters of
\* its text that fits in ENTRY_SIZE - 1 - len bytes, and returns Err exactly
\* when that is not the whole text; len stays below ENTRY_SIZE while
\* writing; after terminate get() is what was written (whole characters
\* only) and one newline, ENTRY_SIZE bytes at most.
C17_Truncation ==
    /\ \A i \in 1 .. Len(entry_calls) :
          /\ entry_calls[i].len = Len(ContentBefore(i))
          /\ entry_calls[i].result = "Err"
             <=> Fit(entry_calls[i].text, ENTRY_SIZE - 1 - Len(ContentBefore(i)))
                    < Len(as_bytes(entry_calls[i].text))
    /\ entry_state = "Writing"
       => /\ entry_len < ENTRY_SIZE
          /\ get = ContentAfter(entry_calls, <<>>)
    /\ entry_state = "Reading"
       => /\ entry_len <= ENTRY_SIZE
          /\ get = ContentAfter(entry_calls, <<>>) \o <<Newline>>

\* C17's case: a call was cut two bytes into a three-byte character, so
\* that write_str moved back over two bytes, on a buffer that already held
\* something, and the buffer was terminated.
C17_Witness ==
    /\ entry_state = "Reading"
    /\ \E i \in 1 .. Len(entry_calls) :
          /\ entry_calls[i].len > 0
          /\ entry_calls[i].result = "Err"
          /\ Len(as_bytes(entry_calls[i].text)) > ENTRY_SIZE - 1 - entry_calls[i].len
          /\ Fit(entry_calls[i].text, ENTRY_SIZE - 1 - entry_calls[i].len) + 2
                = ENTRY_SIZE - 1 - entry_calls[i].len

\* The number of bytes in use when call i has returned.
LenAfter(i) ==
    IF i < Len(entry_calls) THEN entry_calls[i + 1].len
    ELSE IF entry_state = "Writing" THEN entry_len
    ELSE entry_len - 1

\* C18: a write_str call made when len is ENTRY_SIZE - 1 writes nothing and
\* returns Err, whatever the text.
C18_FullAlwaysTruncated ==
    \A i \in 1 .. Len(entry_calls) :
        entry_calls[i].len = ENTRY_SIZE - 1
        => /\ LenAfter(i) = entry_calls[i].len
           /\ entry_calls[i].result = "Err"

\* C18, amended: a write_str call made when len is ENTRY_SIZE - 1 writes
\* nothing, and returns Err for every text but the empty one, for which it
\* returns Ok.
C18_FullTruncatesNonEmpty ==
    \A i \in 1 .. Len(entry_calls) :
        entry_calls[i].len = ENTRY_SIZE - 1
        => /\ LenAfter(i) = entry_calls[i].len
           /\ entry_calls[i].result = "Err" <=> entry_calls[i].text # <<>>

\* C18's case: write_str was called with the empty text on a buffer with
\* ENTRY_SIZE - 1 bytes in use, and returned Ok.
C18_Witness ==
    \E i \in 1 .. Len(entry_calls) :
        /\ entry_calls[i].len = ENTRY_SIZE - 1
        /\ entry_calls[i].text = <<>>
        /\ entry_calls[i].result = "Ok"

\* C20: once a drop call has cleared use_async and waits in join, the
\* consumer thread ends and the call returns; a consumer ends only after a
\* pass that read use_async false, and every pass, that one too, takes all
\* of async_buf and goes on to write it if it is not empty.
C20_DisableReturns ==
    /\ \A h \in Handles :
          (hpc[h] = "joining") ~> (hpc[h] = "idle" /\ cpc[h] = "none")
    /\ [][\A h \in Handles :
             /\ (cpc'[h] = "exited" /\ cpc[h] # "exited")
                => /\ ~clocal'[h]
                   /\ cpc[h] = "writing" \/ (async_buf = <<>> /\ async_buf' = <<>>)
             /\ (cpc[h] \in {"top", "woken"} /\ cpc'[h] \in {"writing", "exited"})
                => /\ cbuf'[h] = async_buf
                   /\ async_buf' = <<>>
                   /\ clocal'[h] = use_async
                   /\ async_buf # <<>> => cpc'[h] = "writing"]_vars

\* C21: whenever the mode is sync and no consumer thread is running,
\* async_buf is empty: no entry is left in it with nobody to write it.
C21_NoStrandedEntry ==
    (~use_async /\ AliveConsumers = {}) => async_buf = <<>>

\* C22: if the log call of entry e1 had left its locked section (its
\* direct write or its append) when the log call of entry e2 first took
\* the mutex, and the sink accepted every write, then once the sink has
\* received e2 it has received e1, all of it before e2.
C22_OrderAcrossModes ==
    FailedWrites = 0
    => \A pair \in preceded :
          Positions(pair[2], Received) # {}
          => /\ Positions(pair[1], Received) # {}
             /\ \A i \in Positions(pair[1], Received), j \in Positions(pair[2], Received) :
                   i < j

\* C23: under fair scheduling every parked call is released: a log call
\* waiting for room appends its entry and returns, and a flush call waiting
\* for an empty buffer returns.
C23_ParkedReleased ==
    /\ \A p \in Producers : (pc[p] = "wait_room") ~> (pc[p] = "idle")
    /\ (fpc = "wait") ~> (fpc = "returned")

====
